---- MODULE Spec2Model ----
(***************************************************************************)
(* Session gating and model acquisition of Speech-Translate's MainWindow   *)
(* (src/speech_translate/ui/window/main.py).                               *)
(*                                                                         *)
(* The handlers of the Tk main loop are the actions.  A handler runs to    *)
(* completion on the coordinating thread; the message boxes (mbox) are     *)
(* synchronous callbacks whose answer is an input of the action.  The      *)
(* file dialogs (wait_window) span several handlers and are kept as a      *)
(* stack of open dialogs.  Background threads (the workers and the model   *)
(* download) are records that post their events as actions.                *)
(*                                                                         *)
(* A run starts at most MaxThreads threads.  The history variable last     *)
(* records one handler of a run, its arguments, the model keys it passed   *)
(* to check_model, the status of each of these calls, the model it gave    *)
(* to the worker it started and how it ended; a run is followed up to the  *)
(* handler that is recorded, which may be any handler of any run.          *)
(*                                                                         *)
(* Four specifications share the state.  Spec is the session gate with     *)
(* the default comboboxes.  CheckSpec is one call of check_model as a      *)
(* function of its arguments, the settings and what the verification       *)
(* meets.  LangSpec is the language lists of utils/translate/language.py,  *)
(* built once at import from what the remote APIs report, and the          *)
(* comboboxes of the main window that show them, from every saved          *)
(* selection: the engine, the model, the tasks, the two languages and the  *)
(* Swap button.  CallSpec is one call of a function of language.py, or     *)
(* of a handler of the main window that selects a default device, with     *)
(* any argument.                                                           *)
(***************************************************************************)
EXTENDS Integers, Sequences, FiniteSets, TLC

VARIABLES
    recording,          \* bc.recording
    file_processing,    \* bc.file_processing
    cancel_dl,          \* bc.cancel_dl
    dl_thread,          \* bc.dl_thread: the download thread last started
    orphans,            \* download threads still alive that bc.dl_thread no longer names
    workers,            \* the primary-operation worker threads that are alive
    btn_record,         \* self.btn_record: text, command, state
    btn_import_file,    \* self.btn_import_file: command, state
    btn_tool,           \* self.btn_tool state
    cbtn_task,          \* state of the task checkbuttons and the other inputs
    load_bar,           \* self.load_bar
    tc,                 \* "selected" in self.cbtn_task_transcribe.state()
    tl,                 \* "selected" in self.cbtn_task_translate.state()
    dialogs,            \* the file dialogs import_file/refine_file/... wait on
    quota,              \* thread starts left in this run
    last,               \* the handler the run ends with, and how it ended (history)
    vocab,              \* the language names the remote APIs report at import
    language,           \* the lists of utils/translate/language.py once it is imported
    ui,                 \* the comboboxes of the main window: engine, model, languages;
                        \* ui.sj: the keys of the settings (sj.cache) they are saved to
    call                \* a call of check_model: its inputs and what it returned

vars == <<recording, file_processing, cancel_dl, dl_thread, orphans, workers,
          btn_record, btn_import_file, btn_tool, cbtn_task, load_bar, tc, tl,
          dialogs, quota, last, vocab, language, ui, call>>

(***************************************************************************)
(* Bounds of the model.                                                    *)
(***************************************************************************)
MaxThreads == 2        \* threads (workers and downloads) started in a run
MaxDialogs == 1        \* file dialogs open at once

(***************************************************************************)
(* Vocabulary.                                                             *)
(***************************************************************************)
\* whisper model keys ("Tiny" and "Large V3" stand for the seven keys)
model_keys == {"Tiny", "Large V3"}
\* the translate engines a launch tells apart: the model keys, LibreTranslate
\* and Google Translate (DEEPL Translate and MyMemoryTranslator launch alike)
Engines == model_keys \cup {"Google Translate", "LibreTranslate"}
\* lowered language names as get_args returns them
Langs == {"english", "french"}
FileKinds == {"Import", "Refine", "Align", "TranslateFile"}
DialogKinds == {"import", "refine", "align", "translate"}

(***************************************************************************)
(* Languages (utils/translate/language.py).  A language name is a string;  *)
(* the tables are cut down to the names below, and a list is a sequence.   *)
(***************************************************************************)
\* the keys of TL_ENGINE_SOURCE_DICT and TL_ENGINE_TARGET_DICT
EngineKeys == Engines \cup {"DEEPL Translate", "MyMemoryTranslator"}

\* two strings that are no key of the dictionaries, one of them with "V3"
UnknownIds == {"Bing", "Turbo V3"}

\* LANGUAGES: whisper's codes and names
LANGUAGES ==
    [c \in {"ar", "en", "jw", "lo", "tl", "yue", "zh"} |->
        CASE c = "ar" -> "arabic"
          [] c = "en" -> "english"
          [] c = "jw" -> "javanese"
          [] c = "lo" -> "lao"
          [] c = "tl" -> "tagalog"
          [] c = "yue" -> "cantonese"
          [] c = "zh" -> "chinese"]

\* the aliases that TO_LANGUAGE_CODE adds to the names of LANGUAGES
Aliases == [n \in {"mandarin"} |-> "zh"]

\* TO_LANGUAGE_CODE: the code of every name and of every alias
TO_LANGUAGE_CODE ==
    [n \in {LANGUAGES[c] : c \in DOMAIN LANGUAGES} \cup DOMAIN Aliases |->
        IF n \in DOMAIN Aliases THEN Aliases[n]
        ELSE CHOOSE c \in DOMAIN LANGUAGES : LANGUAGES[c] = n]

\* WHISPER_CODE_TO_NAME: TO_LANGUAGE_CODE turned round; of the names with one
\* code the last one inserted stays, and the aliases are inserted last
WHISPER_CODE_TO_NAME ==
    [c \in {TO_LANGUAGE_CODE[n] : n \in DOMAIN TO_LANGUAGE_CODE} |->
        IF \E n \in DOMAIN Aliases : Aliases[n] = c
        THEN CHOOSE n \in DOMAIN Aliases : Aliases[n] = c
        ELSE LANGUAGES[c]]

\* len(x) of the codes and of the names
len(x) ==
    CASE x \in {"ar", "en", "jw", "lo", "tl", "zh"} -> 2
      [] x \in {"yue", "lao"} -> 3
      [] x = "arabic" -> 6
      [] x = "english" -> 7
      [] x = "javanese" -> 8
      [] x = "tagalog" -> 7
      [] x = "cantonese" -> 9
      [] x = "chinese" -> 7
      [] x = "mandarin" -> 8

\* every string of the model in the order of Python's str comparison
Alphabet ==
    <<"Arabic", "Auto detect", "Cantonese", "Chinese", "English", "Esperanto",
      "Filipino", "Filipino (tagalog)", "Javanese", "Lao", "Mandarin",
      "Tagalog", "arabic", "auto detect", "cantonese", "chinese", "english",
      "esperanto", "filipino", "filipino (tagalog)", "javanese", "lao",
      "mandarin", "tagalog">>

\* the place of each string in that order
RECURSIVE rank_table(_)
rank_table(n) ==
    IF n = 1 THEN Alphabet[1] :> 1
    ELSE rank_table(n - 1) @@ (Alphabet[n] :> n)

RankOf == rank_table(Len(Alphabet))

Rank(x) == RankOf[x]

\* up_first_case of utils/helper.py: the first letter in upper case
up_first_case(x) ==
    CASE x = "arabic" -> "Arabic"
      [] x = "auto detect" -> "Auto detect"
      [] x = "cantonese" -> "Cantonese"
      [] x = "chinese" -> "Chinese"
      [] x = "english" -> "English"
      [] x = "esperanto" -> "Esperanto"
      [] x = "filipino" -> "Filipino"
      [] x = "filipino (tagalog)" -> "Filipino (tagalog)"
      [] x = "javanese" -> "Javanese"
      [] x = "lao" -> "Lao"
      [] x = "mandarin" -> "Mandarin"
      [] x = "tagalog" -> "Tagalog"
      [] OTHER -> x

\* str.lower()
lower(x) ==
    CASE x = "Arabic" -> "arabic"
      [] x = "Auto detect" -> "auto detect"
      [] x = "Cantonese" -> "cantonese"
      [] x = "Chinese" -> "chinese"
      [] x = "English" -> "english"
      [] x = "Esperanto" -> "esperanto"
      [] x = "Filipino" -> "filipino"
      [] x = "Filipino (tagalog)" -> "filipino (tagalog)"
      [] x = "Javanese" -> "javanese"
      [] x = "Lao" -> "lao"
      [] x = "Mandarin" -> "mandarin"
      [] x = "Tagalog" -> "tagalog"
      [] OTHER -> x

\* x in list
InList(x, list) == LET l == list IN \E i \in 1..Len(l) : l[i] = x

\* list.remove(x): the first x is taken out
remove(list, x) ==
    LET l == list
        i == CHOOSE j \in 1..Len(l) : l[j] = x /\ \A k \in 1..(j - 1) : l[k] # x
    IN  IF ~InList(x, l) THEN l
        ELSE SubSeq(l, 1, i - 1) \o SubSeq(l, i + 1, Len(l))

\* [up_first_case(x) for x in list]
upped(list) == LET l == list IN [i \in 1..Len(l) |-> up_first_case(l[i])]

\* list.sort(): the entry at j goes behind the smaller entries and the equal
\* entries before it
\* a fault: the list is left in the order it has
sort_skipped(list) == list

sort(list) ==
    LET l == list
        n == Len(l)
        r == [j \in 1..n |-> Rank(l[j])]
        place(j) ==
            1 + Cardinality({k \in 1..n : r[k] < r[j] \/ (r[k] = r[j] /\ k < j)})
    IN  [i \in 1..n |-> l[CHOOSE j \in 1..n : place(j) = i]]

\* list(d.keys()): the keys of a dictionary as a list, in one order (the
\* order of insertion is that of the API; the descending order stands for it)
keys(d) ==
    LET ks == d
    IN  [i \in 1..Cardinality(ks) |->
            CHOOSE x \in ks : Cardinality({y \in ks : Rank(y) > Rank(x)}) = i - 1]

\* what get_supported_languages(as_dict=True) returns for the three APIs that
\* are asked at import; MyMemory reports the names that are popped below
Vocabs ==
    {[google |-> {"english"} \cup g, deepl |-> {"arabic", "english"} \cup d,
      mymemory |-> {"english", "javanese"} \cup m] :
        g \in SUBSET {"filipino", "javanese"},
        d \in {{}, {"auto detect"}},
        m \in {{}, {"auto detect", "filipino"}}}

DefaultVocab ==
    [google |-> {"english", "esperanto", "filipino", "javanese"},
     deepl |-> {"arabic", "english"},
     mymemory |-> {"english", "esperanto", "filipino", "javanese"}]

\* d["filipino (tagalog)"] = d.pop("filipino")
renamed(d) ==
    IF "filipino" \in d THEN (d \ {"filipino"}) \cup {"filipino (tagalog)"} ELSE d

\* the keys of the four *_KEY_VAL dictionaries
GOOGLE_KEY_VAL == renamed(vocab.google \cup {"auto detect"})

DEEPL_KEY_VAL == vocab.deepl

MYMEMORY_KEY_VAL == renamed(vocab.mymemory) \ {"javanese"}

LIBRE_KEY_VAL == {"auto detect", "english", "arabic", "esperanto", "tagalog"}

\* verify_language_in_key: "True" or "False", or the error it raises
verify_language_in_key(search, engine) ==
    CASE engine = "Google Translate" ->
             IF search \in GOOGLE_KEY_VAL THEN "True" ELSE "False"
      [] engine = "LibreTranslate" ->
             IF search \in LIBRE_KEY_VAL THEN "True" ELSE "False"
      [] engine = "MyMemoryTranslator" ->
             IF search \in MYMEMORY_KEY_VAL THEN "True" ELSE "False"
      [] engine = "DEEPL Translate" ->
             IF search \in DEEPL_KEY_VAL THEN "True" ELSE "False"
      [] OTHER -> "ValueError"

WHISPER_LANG_LIST == sort(keys(DOMAIN TO_LANGUAGE_CODE))

WHISPER_TARGET == <<"English">>

GOOGLE_TARGET == sort(upped(remove(keys(GOOGLE_KEY_VAL), "auto detect")))

DEEPL_TARGET == sort(upped(keys(DEEPL_KEY_VAL)))

LIBRE_TARGET == sort(upped(remove(keys(LIBRE_KEY_VAL), "auto detect")))

MY_MEMORY_TARGET == sort(upped(keys(MYMEMORY_KEY_VAL)))

TL_ENGINE_TARGET_DICT ==
    [e \in EngineKeys |->
        CASE e \in model_keys -> WHISPER_TARGET
          [] e = "Google Translate" -> GOOGLE_TARGET
          [] e = "DEEPL Translate" -> DEEPL_TARGET
          [] e = "LibreTranslate" -> LIBRE_TARGET
          [] e = "MyMemoryTranslator" -> MY_MEMORY_TARGET]

\* a fault: a name of the list matches when it is part of the lowered name
get_similar_in_list_partial(list, x) ==
    LET l == list
        part_of(a, b) ==
            a = b \/ (a \in {"tagalog", "filipino"} /\ b = "filipino (tagalog)")
    IN  {i \in 1..Len(l) : part_of(l[i], lower(x))}

\* get_similar_in_list of utils/helper.py, as the names of the list that
\* equal the lowered name
get_similar_in_list(list, x) ==
    LET l == list IN {i \in 1..Len(l) : l[i] = lower(x)}

\* a fault: the filtering loops keep a name that resembles a Whisper name
whisper_compatible_partial(list) ==
    LET kept(x) == get_similar_in_list_partial(WHISPER_LANG_LIST, x) # {}
    IN  SelectSeq(list, kept)

\* the filtering loops: the names with a similar name in WHISPER_LANG_LIST
whisper_compatible(list) ==
    LET kept(x) == get_similar_in_list(WHISPER_LANG_LIST, x) # {}
    IN  SelectSeq(list, kept)

GOOGLE_WHISPER_COMPATIBLE == whisper_compatible(GOOGLE_TARGET)

DEEPL_WHISPER_COMPATIBLE == whisper_compatible(DEEPL_TARGET)

LIBRE_WHISPER_COMPATIBLE == whisper_compatible(LIBRE_TARGET)

MYMEMORY_WHISPER_COMPATIBLE == whisper_compatible(MY_MEMORY_TARGET)

WHISPER_LIST_UPPED == sort(upped(WHISPER_LANG_LIST))

WHISPER_SOURCE_V3 == <<"Auto detect">> \o WHISPER_LIST_UPPED

\* a fault: Cantonese is left in the list of every model
WHISPER_SOURCE_unfiltered == WHISPER_SOURCE_V3

WHISPER_SOURCE == remove(WHISPER_SOURCE_V3, "Cantonese")

GOOGLE_SOURCE == <<"Auto detect">> \o sort(upped(GOOGLE_WHISPER_COMPATIBLE))

\* a fault: "Auto detect" is pinned to the list of DeepL as well
DEEPL_SOURCE_pinned == <<"Auto detect">> \o sort(upped(DEEPL_WHISPER_COMPATIBLE))

DEEPL_SOURCE == sort(upped(DEEPL_WHISPER_COMPATIBLE))

LIBRE_SOURCE == <<"Auto detect">> \o sort(upped(LIBRE_WHISPER_COMPATIBLE))

MYMEMORY_SOURCE == sort(upped(MYMEMORY_WHISPER_COMPATIBLE))

\* "V3" in key, for the keys and for a key after replace("V3", "V2")
has_V3(key) == key \in {"Large V3", "Turbo V3"}

TL_ENGINE_SOURCE_DICT ==
    [e \in EngineKeys |->
        CASE e \in model_keys ->
                 IF e = "Large V3" THEN WHISPER_SOURCE_V3 ELSE WHISPER_SOURCE
          [] e = "Google Translate" -> GOOGLE_SOURCE
          [] e = "DEEPL Translate" -> DEEPL_SOURCE
          [] e = "LibreTranslate" -> LIBRE_SOURCE
          [] e = "MyMemoryTranslator" -> MYMEMORY_SOURCE]

\* the module after its import: the lists and dictionaries the window reads
Imported ==
    [WHISPER_SOURCE |-> WHISPER_SOURCE,
     WHISPER_SOURCE_V3 |-> WHISPER_SOURCE_V3,
     TL_ENGINE_SOURCE_DICT |-> TL_ENGINE_SOURCE_DICT,
     TL_ENGINE_TARGET_DICT |-> TL_ENGINE_TARGET_DICT]

get_whisper_lang_source(cur_model) ==
    IF has_V3(cur_model)
    THEN language.WHISPER_SOURCE_V3 ELSE language.WHISPER_SOURCE

\* get_whisper_lang_name: a string of more than three characters is taken
\* for a name and returned, any other string is looked up as a code; the
\* call ends with a value, or with the error it raises
get_whisper_lang_name(search) ==
    IF len(search) > 3 THEN [raised |-> "", value |-> <<search>>]
    ELSE IF search \in DOMAIN WHISPER_CODE_TO_NAME
    THEN [raised |-> "", value |-> <<WHISPER_CODE_TO_NAME[search]>>]
    ELSE [raised |-> "KeyError", value |-> <<>>]

(***************************************************************************)
(* The comboboxes of the main window: the engine, the model, and the two   *)
(* language comboboxes with their lists of values.                         *)
(***************************************************************************)
\* cur_cb_engine.replace("V3", "V2")

\* a fault: the V3 engine keeps its list whatever the model is
source_values_unreplaced(u, tc_on, tl_on) ==
    IF tc_on /\ tl_on
    THEN IF u.cb_engine \in model_keys
         THEN get_whisper_lang_source(u.cb_engine)
         ELSE language.TL_ENGINE_SOURCE_DICT[u.cb_engine]
    ELSE IF tc_on THEN get_whisper_lang_source(u.cb_model)
    ELSE IF tl_on
    THEN IF u.cb_engine \in model_keys
         THEN get_whisper_lang_source(u.cb_engine)
         ELSE language.TL_ENGINE_SOURCE_DICT[u.cb_engine]
    ELSE u.source_values

\* the list cbtn_task_change gives to cb_source_lang
source_values(u, tc_on, tl_on) ==
    IF tc_on /\ tl_on
    THEN IF u.cb_engine \in model_keys
         THEN get_whisper_lang_source(
                  IF has_V3(u.cb_engine) /\ ~has_V3(u.cb_model)
                  THEN "Large V2" ELSE u.cb_engine)
         ELSE language.TL_ENGINE_SOURCE_DICT[u.cb_engine]
    ELSE IF tc_on THEN get_whisper_lang_source(u.cb_model)
    ELSE IF tl_on
    THEN IF u.cb_engine \in model_keys
         THEN get_whisper_lang_source(u.cb_engine)
         ELSE language.TL_ENGINE_SOURCE_DICT[u.cb_engine]
    ELSE u.source_values

\* cbtn_task_change on the comboboxes: the source list for the tasks, and
\* the first entry selected when the selection is not in the list
cbtn_task_change_cb(u, tc_on, tl_on) ==
    LET u0 == u
        u1 == [u0 EXCEPT !.source_values = source_values(u0, tc_on, tl_on)]
    IN  IF ~InList(u1.cb_source_lang, u1.source_values)
        THEN [u1 EXCEPT !.cb_source_lang = u1.source_values[1],
                        !.sj.source_lang_f_import = u1.source_values[1]]
        ELSE u1

\* a fault: the selected target is kept when the new list does not hold it
cb_engine_change_keeping(u, tc_on, tl_on) ==
    LET u0 == u
        u1 == cbtn_task_change_cb(u0, tc_on, tl_on)
    IN  [u1 EXCEPT !.target_values = language.TL_ENGINE_TARGET_DICT[u1.cb_engine]]

\* cb_engine_change, the engine being selected already
cb_engine_change(u, tc_on, tl_on) ==
    LET u0 == u
        u1 == cbtn_task_change_cb(u0, tc_on, tl_on)
        u2 == [u1 EXCEPT !.target_values =
                            language.TL_ENGINE_TARGET_DICT[u1.cb_engine]]
    IN  IF ~InList(u2.cb_target_lang, u2.target_values)
        THEN [u2 EXCEPT !.cb_target_lang = u2.target_values[1],
                        !.sj.target_lang_mw = u2.target_values[1]]
        ELSE u2

\* cb_swap_lang: the two selections change places; a target of "Auto detect"
\* is replaced by the first entry of the target list; both are saved
cb_swap_lang(u) ==
    LET u0 == u
        u1 == [u0 EXCEPT !.cb_source_lang = u0.cb_target_lang,
                         !.cb_target_lang = u0.cb_source_lang]
        u2 == IF u1.cb_target_lang = "Auto detect"
              THEN [u1 EXCEPT !.cb_target_lang = u1.target_values[1]]
              ELSE u1
    IN  [u2 EXCEPT !.sj.source_lang_mw = u2.cb_source_lang,
                   !.sj.target_lang_mw = u2.cb_target_lang]

\* the selections saved in the settings (sj.cache) that __init__ restores,
\* and the source language saved by the import dialog
Saved ==
    [tl_engine_mw : EngineKeys, model_mw : model_keys,
     source_lang_mw : {"English", "Cantonese"},
     target_lang_mw : {"English", "Cantonese"},
     source_lang_f_import : {"Auto detect"}]

\* the comboboxes after __init__ and __on_init, both tasks selected
Constructed(saved) ==
    LET u0 == [cb_engine |-> saved.tl_engine_mw,
               cb_model |-> saved.model_mw,
               source_values |-> <<>>,
               cb_source_lang |-> saved.source_lang_mw,
               target_values |-> upped(WHISPER_LANG_LIST),
               cb_target_lang |-> saved.target_lang_mw,
               sj |-> [source_lang_mw |-> saved.source_lang_mw,
                       target_lang_mw |-> saved.target_lang_mw,
                       source_lang_f_import |-> saved.source_lang_f_import]]
    IN  cbtn_task_change_cb(cb_engine_change(u0, TRUE, TRUE), TRUE, TRUE)

\* the selections of a first start
DefaultUi ==
    Constructed([tl_engine_mw |-> "Tiny", model_mw |-> "Tiny",
                 source_lang_mw |-> "English", target_lang_mw |-> "English",
                 source_lang_f_import |-> "Auto detect"])

(***************************************************************************)
(* The session gate.                                                       *)
(***************************************************************************)
\* the state the handlers read and write, as one record
Cur ==
    [recording |-> recording, file_processing |-> file_processing,
     cancel_dl |-> cancel_dl, dl_thread |-> dl_thread, orphans |-> orphans,
     workers |-> workers, btn_record |-> btn_record,
     btn_import_file |-> btn_import_file, btn_tool |-> btn_tool,
     cbtn_task |-> cbtn_task, load_bar |-> load_bar, tc |-> tc, tl |-> tl,
     dialogs |-> dialogs, quota |-> quota]

\* the handler's final state becomes the next state of the gate
Assign(s, l) ==
    /\ recording' = s.recording
    /\ file_processing' = s.file_processing
    /\ cancel_dl' = s.cancel_dl
    /\ dl_thread' = s.dl_thread
    /\ orphans' = s.orphans
    /\ workers' = s.workers
    /\ btn_record' = s.btn_record
    /\ btn_import_file' = s.btn_import_file
    /\ btn_tool' = s.btn_tool
    /\ cbtn_task' = s.cbtn_task
    /\ load_bar' = s.load_bar
    /\ tc' = s.tc
    /\ tl' = s.tl
    /\ dialogs' = s.dialogs
    /\ quota' = s.quota
    /\ last' = l

\* a handler of the gate: it writes no combobox
Commit(s, l) == Assign(s, l) /\ UNCHANGED <<vocab, language, ui, call>>

\* no thread: bc.dl_thread is None, or the thread it names has ended
NoThread == [alive |-> FALSE, callbacks |-> FALSE, owner |-> 0]

\* bc.dl_thread and bc.dl_thread.is_alive()
dl_alive(s) == s.dl_thread.alive

\* the sum of a bag's counts
RECURSIVE BagSize(_, _)
BagSize(b, S) ==
    IF S = {} THEN 0
    ELSE LET x == CHOOSE y \in S : TRUE IN b[x] + BagSize(b, S \ {x})

BagAdd(b, x) == [b EXCEPT ![x] = @ + 1]

BagRemove(b, x) == [b EXCEPT ![x] = @ - 1]

\* a download thread that bc.dl_thread no longer names: whether it was given
\* the callbacks, and whose disabler and enabler they hold (0 the main
\* window's, i > 0 those of dialog i, -1 those of a dialog that is gone)
ThreadKinds == [callbacks : BOOLEAN, owner : -1..MaxDialogs]

\* a worker thread: its kind and where it is.  A file worker is "running"
\* while its progress window exists and "stopping" once a stop destroyed it.
WorkerStates ==
    [kind : {"Record"}, phase : {"loading", "running"}]
    \cup [kind : FileKinds, phase : {"running", "stopping"}]

NumWorkers(s) == BagSize(s.workers, WorkerStates)

\* download threads alive, named by bc.dl_thread or not
NumDownloads(s) ==
    (IF s.dl_thread.alive THEN 1 ELSE 0) + BagSize(s.orphans, ThreadKinds)

\* Thread(...).start() of a worker that begins in state w
start_worker(s, w) ==
    [s EXCEPT !.workers = BagAdd(@, w), !.quota = @ - 1]

(***************************************************************************)
(* Widgets of the main window and of the file dialogs.                     *)
(***************************************************************************)
disable_rec(s) == [s EXCEPT !.btn_record.state = "disabled"]

enable_rec(s) == [s EXCEPT !.btn_record.state = "normal"]

disable_interactions(s) ==
    [s EXCEPT !.cbtn_task = "disabled",
              !.btn_record.state = "disabled",
              !.btn_import_file.state = "disabled",
              !.btn_tool = "disabled"]

enable_interactions(s) ==
    LET s1 == [s EXCEPT !.cbtn_task = "normal",
                        !.btn_record.state = "normal",
                        !.btn_import_file.state = "normal",
                        !.btn_tool = "normal"]
    IN  IF ~s.tc /\ ~s.tl THEN disable_rec(s1) ELSE enable_rec(s1)

\* prompt.disable_interactions / prompt.enable_interactions of dialog i; a
\* dialog that was destroyed has no widgets left to configure
prompt_set(s, i, on) ==
    IF i \in DOMAIN s.dialogs /\ s.dialogs[i].open
    THEN [s EXCEPT !.dialogs[i].enabled = on]
    ELSE s

\* kwargs["disabler"]() and kwargs["enabler"]() of check_model: the main
\* window's pair for rec (owner 0), the dialog's pair for a do_process
disabler(s, owner) ==
    IF owner = 0 THEN disable_interactions(s) ELSE prompt_set(s, owner, FALSE)

enabler(s, owner) ==
    IF owner = 0 THEN enable_interactions(s) ELSE prompt_set(s, owner, TRUE)

start_lb(s) == [s EXCEPT !.load_bar = "running"]

stop_lb(s, mode) ==
    LET s1 == [s EXCEPT !.load_bar = "stopped"]
    IN  IF mode \in {"mic", "speaker"}
        THEN IF ~s1.recording THEN s1
             ELSE [s1 EXCEPT !.btn_record.text = "Stop"]
        ELSE IF mode = "file"
        THEN enable_interactions(
                 [s1 EXCEPT !.btn_import_file.command = "import_file"])
        ELSE s1

(***************************************************************************)
(* Model verification and acquisition.                                     *)
(***************************************************************************)
\* append_dot_en of whisper/helper.py: the English-only variant of a model,
\* which the large models do not have
append_dot_en(key, is_english, use_en_model) ==
    IF is_english /\ use_en_model /\ key # "Large V3" THEN key \o ".en" ELSE key

\* what one call of check_model meets: the verdict of verify_model_*, the
\* answer to "download it now?", the settings it reads, and whether
\* Thread(...).start() raises
AllCheckInputs ==
    [verify : {"ok", "missing", "HTTPSConnectionPool", "error"},
     download : BOOLEAN,
     dir_model : {"auto", "custom"},
     bypass_no_internet : BOOLEAN,
     use_en_model : BOOLEAN,
     start_fails : BOOLEAN]

\* the inputs a call reads on its path; those it does not reach are left at
\* their first value, and use_en_model is on
CheckInputs ==
    {inp \in AllCheckInputs :
        /\ inp.use_en_model
        /\ inp.verify # "missing" => ~inp.download
        /\ ~inp.download => inp.dir_model = "auto" /\ ~inp.start_fails
        /\ inp.start_fails => inp.dir_model = "auto"
        /\ inp.verify = "ok" => ~inp.bypass_no_internet
        /\ inp.download => ~inp.bypass_no_internet}

\* bc.dl_thread = Thread(target=download_model, kwargs=dl_kwargs); start().
\* With dir_model other than "auto" dl_kwargs holds download_root alone.
start_download(s, dir_model, owner) ==
    [s EXCEPT !.dl_thread = [alive |-> TRUE,
                             callbacks |-> (dir_model = "auto"),
                             owner |-> owner],
              !.quota = @ - 1,
              !.orphans = IF s.dl_thread.alive
                          THEN BagAdd(s.orphans,
                                      [callbacks |-> s.dl_thread.callbacks,
                                       owner |-> s.dl_thread.owner])
                          ELSE s.orphans]

\* the finally clause of check_model
check_model_finally(s, owner) ==
    IF dl_alive(s) THEN s ELSE enabler(s, owner)

\* a fault: the bypass setting is honoured for every failed check
check_model_on_bypassing(s, key, is_english, owner, inp) ==
    LET model_name == append_dot_en(key, is_english, inp.use_en_model)
        s1 == disabler(s, owner)
        ret(x, status, name, how) ==
            [s |-> check_model_finally(x, owner), status |-> status,
             model_name |-> name, how |-> how, key |-> key]
    IN  IF inp.verify = "ok" \/ inp.bypass_no_internet
        THEN ret(s1, TRUE, model_name, "ready")
        ELSE IF inp.verify = "missing" /\ inp.download /\ ~inp.start_fails
        THEN ret(start_download(s1, inp.dir_model, owner), FALSE, "", "download")
        ELSE ret(s1, FALSE, "", "error")

\* check_model for one input: the state it leaves and (status, model_name)
check_model_on(s, key, is_english, owner, inp) ==
    LET model_name == append_dot_en(key, is_english, inp.use_en_model)
        s1 == disabler(s, owner)
        ret(x, status, name, how) ==
            [s |-> check_model_finally(x, owner), status |-> status,
             model_name |-> name, how |-> how, key |-> key]
    IN  IF inp.verify = "ok" THEN ret(s1, TRUE, model_name, "ready")
        ELSE IF inp.verify = "missing"
        THEN IF inp.download
             THEN IF inp.start_fails
                  THEN ret(s1, FALSE, "", "download_error")
                  ELSE ret(start_download(s1, inp.dir_model, owner),
                           FALSE, "", "download")
             ELSE ret(s1, FALSE, "", "declined")
        ELSE IF inp.verify = "HTTPSConnectionPool"
        THEN IF inp.bypass_no_internet
             THEN ret(s1, TRUE, model_name, "ready")
             ELSE ret(s1, FALSE, "", "no_internet")
        ELSE ret(s1, FALSE, "", "error")

\* every way a call of check_model can end
check_model(s, key, is_english, owner) ==
    {check_model_on(s, key, is_english, owner, inp) : inp \in CheckInputs}

(***************************************************************************)
(* Recording.                                                              *)
(***************************************************************************)
\* how a handler ended: the state it leaves, its outcome and the model keys
\* it passed to check_model
Ret(s, outcome, checked) == [s |-> s, outcome |-> outcome, checked |-> checked]

\* no call of check_model: status and model as they were
NoCheck(s, name) ==
    {[s |-> s, status |-> TRUE, model_name |-> name, how |-> "skipped", key |-> ""]}

CheckedKeys(c1, c2) ==
    (IF c1.how = "skipped" THEN <<>> ELSE <<c1.key>>) \o
    (IF c2.how = "skipped" THEN <<>> ELSE <<c2.key>>)

\* the status each of these calls returned
Statuses(c1, c2) ==
    (IF c1.how = "skipped" THEN <<>> ELSE <<c1.status>>) \o
    (IF c2.how = "skipped" THEN <<>> ELSE <<c2.status>>)

\* a handler that called check_model ends with the statuses the calls
\* returned, and one that started a worker with the model it gave to it
Passed(r, statuses) == r @@ [passed |-> statuses]

Given(r, model_tc) ==
    r @@ [model_tc |-> IF r.outcome = "launched" THEN model_tc ELSE ""]


rec_stop(s) ==
    [s EXCEPT !.recording = FALSE,
              !.btn_record.text = "Stopping...",
              !.btn_record.state = "disabled"]

after_rec_stop(s) ==
    enable_interactions(
        [s EXCEPT !.load_bar = "stopped",
                  !.btn_record.text = "Record",
                  !.btn_record.command = "rec"])

\* the settings and answers of the LibreTranslate check, and whether starting
\* the thread raises; an input that is not reached is left at its first value
LaunchInputs ==
    {li \in [libre_link : {"", "http://127.0.0.1:5000"},
             api_key_warning : BOOLEAN,
             continue_anyway : BOOLEAN,
             start_fails : BOOLEAN] :
        /\ li.libre_link = "" => ~li.api_key_warning /\ ~li.start_fails
        /\ ~li.api_key_warning => ~li.continue_anyway
        /\ (li.api_key_warning /\ ~li.continue_anyway) => ~li.start_fails}

\* "check when using libre": the reason the launch stops, or "ok"
libre_check(uses_libre, li) ==
    IF ~uses_libre THEN "ok"
    ELSE IF li.libre_link = "" THEN "libre_link_unset"
    ELSE IF li.api_key_warning /\ ~li.continue_anyway THEN "libre_key_declined"
    ELSE "ok"

\* rec from "ui changes" on: flag, button and thread
rec_start(s, start_fails) ==
    LET s1 == disable_interactions(start_lb(s))
        s2 == [s1 EXCEPT !.btn_record =
                             [text |-> "Loading", command |-> "rec_stop",
                              state |-> "normal"],
                         !.recording = TRUE]
    IN  IF start_fails
        THEN [s |-> after_rec_stop(rec_stop(s2)), outcome |-> "start_failed"]
        ELSE [s |-> start_worker(s2, [kind |-> "Record", phase |-> "loading"]),
              outcome |-> "launched"]

\* rec after both model checks passed
rec_launch(s, a, tl_engine, model_tc, checked, li) ==
    LET why == libre_check(a.tl /\ tl_engine = "LibreTranslate", li)
        r == rec_start(s, li.start_fails)
    IN  IF model_tc = "" THEN Ret(s, "assertion_failed", checked)
        ELSE IF why # "ok" THEN Ret(s, why, checked)
        ELSE Given(Ret(r.s, r.outcome, checked), model_tc)

\* the arguments of a launch: the two tasks, the transcribe model, the
\* translate engine and the lowered languages
\* an argument that the launch does not read is left at its first value
Args ==
    {a \in [tc : BOOLEAN, tl : BOOLEAN, m_key : model_keys,
            tl_engine : Engines, source : Langs, target : Langs] :
        /\ ~a.tl => a.tl_engine = "Google Translate" /\ a.target = "english"
        /\ (a.tl /\ a.source = a.target) =>
               a.tl_engine = "Google Translate" /\ a.m_key = "Large V3"
        /\ (~a.tc /\ a.tl /\ a.tl_engine \in model_keys) => a.m_key = "Large V3"
        /\ (~a.tc /\ ~a.tl) => a.m_key = "Large V3" /\ a.source = "english"}

\* get_args: the tasks are the two checkbuttons, the rest the comboboxes
get_args(s) == {a \in Args : a.tc = s.tc /\ a.tl = s.tl}

\* the handler ended within the bounds of the model
InBounds(s) ==
    /\ s.quota >= 0
    /\ Len(s.dialogs) <= MaxDialogs

\* a handler that read no arguments
NoArgs ==
    [tc |-> FALSE, tl |-> FALSE, m_key |-> "Large V3",
     tl_engine |-> "Google Translate", source |-> "english", target |-> "english"]

\* no handler is recorded yet
NoHandler ==
    [op |-> "none", outcome |-> "", checked |-> <<>>, passed |-> <<>>,
     model_tc |-> "", a |-> NoArgs]

\* the run goes on until a handler is recorded
Following == last = NoHandler

\* handler op ended as r after reading the arguments a; it is recorded in the
\* history or not
DoneWith(op, r, a) ==
    /\ InBounds(r.s)
    /\ \E recorded \in BOOLEAN :
          Commit(r.s, IF recorded
                      THEN [op |-> op, outcome |-> r.outcome,
                            checked |-> r.checked,
                            passed |-> IF "passed" \in DOMAIN r
                                       THEN r.passed ELSE <<>>,
                            model_tc |-> IF "model_tc" \in DOMAIN r
                                         THEN r.model_tc ELSE "",
                            a |-> a]
                      ELSE last)

Done(op, r) == DoneWith(op, r, NoArgs)

\* a fault: the language pair is not compared
same_language_never(a) == FALSE

\* "if source == target and tl"
same_language(a) == a.source = a.target /\ a.tl

\* the model checks of a launch: the first for the transcribe model, the
\* second for a whisper engine
first_check(s, a, owner) ==
    IF (a.tl /\ a.tl_engine \notin model_keys) \/ a.tc
    THEN check_model(s, a.m_key, a.source = "english", owner)
    ELSE NoCheck(s, "")

\* a fault: with both tasks the engine's model is taken as verified
second_check_reusing(s, a, owner) ==
    IF a.tl /\ ~a.tc /\ a.tl_engine \in model_keys
    THEN check_model(s, a.tl_engine, a.source = "english", owner)
    ELSE NoCheck(s, a.tl_engine)

second_check(s, a, owner) ==
    IF a.tl /\ a.tl_engine \in model_keys
    THEN check_model(s, a.tl_engine, a.source = "english", owner)
    ELSE NoCheck(s, a.tl_engine)

\* a fault: what the engine's check returned is given in every mode
model_tc_of_engine(a, c1, c2) == c2.model_name

\* "if only tl and using whisper, replace model_tc with engine"
model_tc_of(a, c1, c2) ==
    IF a.tl /\ ~a.tc /\ a.tl_engine \in model_keys
    THEN c2.model_name ELSE c1.model_name

\* the inputs of the launch that are read for these arguments
LaunchInputsOf(a, tl_engine) ==
    IF a.tl /\ tl_engine = "LibreTranslate" THEN LaunchInputs
    ELSE {li \in LaunchInputs : li.libre_link # "" /\ ~li.api_key_warning}

\* a download thread alive: the one bc.dl_thread names (cur), or another
Threads == [cur : BOOLEAN, callbacks : BOOLEAN, owner : -1..MaxDialogs]

KindOf(t) == [callbacks |-> t.callbacks, owner |-> t.owner]

AliveThreads(s) ==
    {t \in Threads :
        IF t.cur THEN s.dl_thread.alive /\ KindOf(t) = KindOf(s.dl_thread)
        ELSE s.orphans[KindOf(t)] > 0}

thread_exit(s, t) ==
    IF t.cur THEN [s EXCEPT !.dl_thread = NoThread]
    ELSE [s EXCEPT !.orphans = BagRemove(@, KindOf(t))]

\* what the caller of rec does once rec returns: nothing, or the download
\* thread t that called it ends
NoExit == [exit |-> FALSE, t |-> [cur |-> TRUE, callbacks |-> FALSE, owner |-> 0]]

finish(s, then) == IF then.exit THEN thread_exit(s, then.t) ELSE s

\* one call of rec in state s, run by handler op, which goes on with then
rec(s, op, then) ==
    LET End(r, a) == DoneWith(op, [r EXCEPT !.s = finish(r.s, then)], a)
    IN
    IF dl_alive(s) THEN End(Ret(s, "download_running", <<>>), NoArgs)
    ELSE IF s.btn_record.state = "disabled" THEN End(Ret(s, "disabled", <<>>), NoArgs)
    ELSE
      \/ End(Ret(s, "not_available", <<>>), NoArgs)  \* speaker input, not on Windows
      \/ \E a \in get_args(s) :
           IF same_language(a) THEN End(Ret(s, "same_language", <<>>), a)
           ELSE \E c1 \in first_check(s, a, 0) :
                  IF ~c1.status
                  THEN End(Passed(Ret(c1.s, c1.how, <<c1.key>>), <<c1.status>>), a)
                  ELSE \E c2 \in second_check(c1.s, a, 0) :
                         IF ~c2.status
                         THEN End(Passed(Ret(c2.s, c2.how, CheckedKeys(c1, c2)),
                                         Statuses(c1, c2)), a)
                         ELSE \E li \in LaunchInputsOf(a, c2.model_name) :
                                End(Passed(rec_launch(c2.s, a, c2.model_name,
                                                      model_tc_of(a, c1, c2),
                                                      CheckedKeys(c1, c2), li),
                                           Statuses(c1, c2)), a)

\* the Record button while its command is rec
RecButton ==
    /\ Following
    /\ btn_record.state = "normal" /\ btn_record.command = "rec"
    /\ rec(Cur, "rec", NoExit)

\* the tray's Action > Record: root.after(0, bc.mw.rec)
RecTray ==
    /\ Following
    /\ rec(Cur, "rec", NoExit)

\* the Record button while its command is rec_stop
RecStopButton ==
    /\ Following
    /\ btn_record.state = "normal" /\ btn_record.command = "rec_stop"
    /\ Done("rec_stop", Ret(rec_stop(Cur), "stopped", <<>>))

(***************************************************************************)
(* The recording worker (record_session): it reports the end of loading    *)
(* with stop_lb, leaves its loop once it reads bc.recording as false and   *)
(* then calls after_rec_stop; on an error it calls rec_stop first.         *)
(***************************************************************************)
worker_exit(s, w) == [s EXCEPT !.workers = BagRemove(@, w)]

Loading == [kind |-> "Record", phase |-> "loading"]

Recording == [kind |-> "Record", phase |-> "running"]

RecWorkerLoaded ==
    /\ Following
    /\ workers[Loading] > 0
    /\ Done("stop_lb",
            Ret(stop_lb([Cur EXCEPT !.workers = BagAdd(BagRemove(@, Loading), Recording)],
                        "mic"),
                "loaded", <<>>))

RecWorkerStopped(w) ==
    /\ Following
    /\ w.kind = "Record" /\ workers[w] > 0 /\ ~recording
    /\ Done("after_rec_stop", Ret(after_rec_stop(worker_exit(Cur, w)), "stopped", <<>>))

RecWorkerError(w) ==
    /\ Following
    /\ w.kind = "Record" /\ workers[w] > 0
    /\ Done("after_rec_stop",
            Ret(after_rec_stop(rec_stop(worker_exit(Cur, w))), "error", <<>>))

(***************************************************************************)
(* The download thread (download_model): it ends with after_func when the  *)
(* model is acquired and with failed_func when the download fails; its     *)
(* progress window offers cancel_func; it stops once it reads bc.cancel_dl *)
(* as true.  Without the callbacks it can call none of them.               *)
(***************************************************************************)
\* a fault: every download holds rec as its task
task_of_always(th) == "rec"

\* the callbacks of a download started for rec hold rec as their task
task_of(th) == IF th.owner = 0 THEN "rec" ELSE "none"

\* a fault: the flag is flipped instead of raised
model_dl_cancel_flipping(s, owner, confirm) ==
    IF ~confirm THEN s
    ELSE [enabler(s, owner) EXCEPT !.cancel_dl = ~@]

model_dl_cancel(s, owner, confirm) ==
    IF ~confirm THEN s
    ELSE [enabler(s, owner) EXCEPT !.cancel_dl = TRUE]

\* check_failed, the failed_func of check_model
check_failed(s, owner) == enabler(s, owner)

\* after_model_dl: the enabler, then the task if there is one and the user
\* answers yes to "Continue task?"; then the thread ends, if it has not
after_model_dl(s, task, owner, continue, then) ==
    LET s1 == enabler(s, owner)
    IN  IF task = "rec" /\ continue
        THEN rec(s1, "after_model_dl", then)
        ELSE Done("after_model_dl",
                  Ret(finish(s1, then),
                      IF task = "rec" THEN "not_continued" ELSE "no_task", <<>>))

\* the thread may have ended or not when its after_func runs
DlAcquired(t) ==
    /\ Following
    /\ t \in AliveThreads(Cur)
    /\ LET th == t
       IN  IF ~th.callbacks
           THEN Done("dl_acquired", Ret(thread_exit(Cur, t), "no_callback", <<>>))
           ELSE \E continue \in BOOLEAN :
                  \/ after_model_dl(thread_exit(Cur, t), task_of(th), th.owner,
                                    continue, NoExit)
                  \/ after_model_dl(Cur, task_of(th), th.owner, continue,
                                    [exit |-> TRUE, t |-> t])

DlFailed(t) ==
    /\ Following
    /\ t \in AliveThreads(Cur)
    /\ LET th == t
       IN  IF ~th.callbacks
           THEN Done("dl_failed", Ret(thread_exit(Cur, t), "no_callback", <<>>))
           ELSE Done("check_failed",
                     Ret(check_failed(thread_exit(Cur, t), th.owner), "failed", <<>>))

DlCancelButton(t) ==
    /\ Following
    /\ t \in AliveThreads(Cur)
    /\ t.callbacks
    /\ \E confirm \in BOOLEAN :
          Done("model_dl_cancel",
               Ret(model_dl_cancel(Cur, t.owner, confirm),
                   IF confirm THEN "cancelled" ELSE "declined", <<>>))

DlObservesCancel(t) ==
    /\ Following
    /\ t \in AliveThreads(Cur)
    /\ cancel_dl
    /\ Done("dl_cancelled",
            Ret([thread_exit(Cur, t) EXCEPT !.cancel_dl = FALSE], "cancelled", <<>>))

\* a click on a task checkbutton: cbtn_task_change
cbtn_task_change(s) ==
    IF ~s.tc /\ ~s.tl THEN disable_rec(s) ELSE enable_rec(s)

CbtnTask ==
    /\ Following
    /\ cbtn_task = "normal"
    /\ \E which \in {"tc", "tl"}, recorded \in BOOLEAN :
          LET s == cbtn_task_change(IF which = "tc" THEN [Cur EXCEPT !.tc = ~@]
                                    ELSE [Cur EXCEPT !.tl = ~@])
          IN  /\ Assign(s, IF recorded
                           THEN [NoHandler EXCEPT !.op = "cbtn_task_change",
                                                  !.outcome = which]
                           ELSE last)
              /\ ui' = cbtn_task_change_cb(ui, s.tc, s.tl)
              /\ UNCHANGED <<vocab, language, call>>

(***************************************************************************)
(* The file operations: import_file, refine_file, align_file and           *)
(* translate_file open a dialog and wait for it (wait_window); the dialog  *)
(* calls do_process when the user submits and closes itself when           *)
(* do_process returns True.                                                *)
(***************************************************************************)
\* the first progress window with this title is destroyed
destroy_transient_toplevel(s, kind) ==
    LET w == [kind |-> kind, phase |-> "running"]
    IN  IF s.workers[w] = 0 THEN s
        ELSE [s EXCEPT !.workers =
                 BagAdd(BagRemove(@, w), [kind |-> kind, phase |-> "stopping"])]

\* the "Cancelled" message boxes one call of a stop function shows with
\* notify left at True: one, unless the prompt is declined
stop_notice(prompt, answer) == IF prompt /\ ~answer THEN 0 ELSE 1

\* from_file_stop(prompt, ...): answer is the user's answer to the prompt
from_file_stop(s, prompt, answer) ==
    IF prompt /\ ~answer THEN s
    ELSE enable_interactions(
           [destroy_transient_toplevel(s, "Import")
               EXCEPT !.file_processing = FALSE,
                      !.load_bar = "stopped",
                      !.btn_import_file.command = "import_file"])

refinement_stop(s, prompt, answer) ==
    IF prompt /\ ~answer THEN s
    ELSE enable_interactions(
           [destroy_transient_toplevel(s, "Refine")
               EXCEPT !.file_processing = FALSE, !.load_bar = "stopped"])

alignment_stop(s, prompt, answer) ==
    IF prompt /\ ~answer THEN s
    ELSE enable_interactions(
           [destroy_transient_toplevel(s, "Align")
               EXCEPT !.file_processing = FALSE, !.load_bar = "stopped"])

translate_stop(s, prompt, answer) ==
    IF prompt /\ ~answer THEN s
    ELSE enable_interactions(
           [destroy_transient_toplevel(s, "TranslateFile")
               EXCEPT !.file_processing = FALSE, !.load_bar = "stopped"])

\* a fault: the answer to the confirmation is not looked at
stop_of_unasked(s, kind, prompt, answer) ==
    IF kind = "Import" THEN from_file_stop(s, FALSE, answer)
    ELSE IF kind = "Refine" THEN refinement_stop(s, FALSE, answer)
    ELSE IF kind = "Align" THEN alignment_stop(s, FALSE, answer)
    ELSE translate_stop(s, FALSE, answer)

\* the stop function of each kind of file worker
stop_of(s, kind, prompt, answer) ==
    IF kind = "Import" THEN from_file_stop(s, prompt, answer)
    ELSE IF kind = "Refine" THEN refinement_stop(s, prompt, answer)
    ELSE IF kind = "Align" THEN alignment_stop(s, prompt, answer)
    ELSE translate_stop(s, prompt, answer)

\* a download whose dialog is gone has no widgets to enable
forget_owners(b, i) ==
    [k \in ThreadKinds |->
        IF k.owner = i THEN 0
        ELSE IF k.owner = -1 THEN b[k] + b[[k EXCEPT !.owner = i]]
        ELSE b[k]]

\* wait_window returns for the dialogs on top of the stack that are
\* destroyed, and each launch function goes on with enable_interactions
RECURSIVE wait_window(_)
wait_window(s) ==
    LET n == Len(s.dialogs)
    IN  IF n = 0 \/ s.dialogs[n].open THEN s
        ELSE wait_window(enable_interactions(
               [s EXCEPT !.dialogs = SubSeq(@, 1, n - 1),
                         !.dl_thread = IF @.owner = n
                                       THEN [@ EXCEPT !.owner = -1] ELSE @,
                         !.orphans = forget_owners(@, n)]))

\* prompt.root is destroyed
destroy_dialog(s, i) == wait_window([s EXCEPT !.dialogs[i].open = FALSE])

\* import_file, refine_file, align_file, translate_file up to wait_window
open_dialog(s, kind) ==
    IF dl_alive(s) THEN Ret(s, "download_running", <<>>)
    ELSE IF (IF kind = "import" THEN s.btn_import_file.state ELSE s.btn_tool)
               = "disabled"
    THEN Ret(s, "disabled", <<>>)
    ELSE Ret([disable_interactions(s) EXCEPT
                 !.dialogs = Append(@, [kind |-> kind, open |-> TRUE,
                                        enabled |-> TRUE])],
             "opened", <<>>)

\* the Import button while its command is import_file
ImportButton ==
    /\ Following
    /\ btn_import_file.state = "normal" /\ btn_import_file.command = "import_file"
    /\ Done("import_file", open_dialog(Cur, "import"))

\* the entries of the Tool menu
ToolMenu(kind) ==
    /\ Following
    /\ btn_tool = "normal" /\ kind # "import"
    /\ Done(kind \o "_file", open_dialog(Cur, kind))

\* the tray's Action menu: root.after(0, bc.mw.import_file) and the others
FileTray(kind) ==
    /\ Following
    /\ Done(kind \o "_file", open_dialog(Cur, kind))

\* the user closes a dialog
CloseDialog(i) ==
    /\ Following
    /\ dialogs[i].open
    /\ Done("close_dialog", Ret(destroy_dialog(Cur, i), dialogs[i].kind, <<>>))

\* a fault: the exception of Thread(...).start() is not handled
file_start_unhandled(s, kind, start_fails) ==
    LET s1 == [disable_interactions(start_lb(s)) EXCEPT !.file_processing = TRUE]
    IN  IF start_fails
        THEN [s |-> s1, outcome |-> "start_failed", status |-> FALSE]
        ELSE [s |-> start_worker(s1, [kind |-> kind, phase |-> "running"]),
              outcome |-> "launched", status |-> TRUE]

\* do_process from "ui changes" on, for the worker of this kind
file_start(s, kind, start_fails) ==
    LET s1 == disable_interactions(start_lb(s))
        s2 == IF kind = "Import"
              THEN [s1 EXCEPT !.btn_import_file =
                        [command |-> "from_file_stop", state |-> "normal"]]
              ELSE s1
        s3 == [s2 EXCEPT !.file_processing = TRUE]
    IN  IF start_fails
        THEN [s |-> stop_of(s3, kind, FALSE, FALSE), outcome |-> "start_failed",
              status |-> FALSE]
        ELSE [s |-> start_worker(s3, [kind |-> kind, phase |-> "running"]),
              outcome |-> "launched", status |-> TRUE]

\* do_process of import_file after both model checks passed
import_launch(s, a, tl_engine, model_tc, li) ==
    LET why == libre_check(a.tl /\ tl_engine = "LibreTranslate", li)
    IN  IF model_tc = ""
        THEN [s |-> s, outcome |-> "assertion_failed", status |-> FALSE]
        ELSE IF why # "ok" THEN [s |-> s, outcome |-> why, status |-> FALSE]
        ELSE Given(file_start(s, "Import", li.start_fails), model_tc)

\* the dialog's submit: it is destroyed when do_process returned True
Submitted(op, i, r, checked, a) ==
    DoneWith(op, Ret(IF r.status THEN destroy_dialog(r.s, i) ELSE r.s,
                     r.outcome, checked) @@ r, a)

Failed(s, how) == [s |-> s, outcome |-> how, status |-> FALSE]

ImportDoProcess(i) ==
    /\ Following
    /\ dialogs[i].kind = "import" /\ dialogs[i].open /\ dialogs[i].enabled
    /\ LET op == "import_file.do_process" IN
       \E a \in Args :
         IF same_language(a)
         THEN Submitted(op, i, Failed(Cur, "same_language"), <<>>, a)
         ELSE \E c1 \in first_check(Cur, a, i) :
                IF ~c1.status
                THEN Submitted(op, i, Passed(Failed(c1.s, c1.how), <<c1.status>>),
                               <<c1.key>>, a)
                ELSE \E c2 \in second_check(c1.s, a, i) :
                       IF ~c2.status
                       THEN Submitted(op, i,
                                      Passed(Failed(c2.s, c2.how), Statuses(c1, c2)),
                                      CheckedKeys(c1, c2), a)
                       ELSE \E li \in LaunchInputsOf(a, c2.model_name) :
                              Submitted(op, i,
                                        Passed(import_launch(c2.s, a, c2.model_name,
                                                             model_tc_of(a, c1, c2),
                                                             li),
                                               Statuses(c1, c2)),
                                        CheckedKeys(c1, c2), a)

\* do_process of refine_file and of align_file: one check of the original
\* whisper model, English-only for align when every file is in English
ModDoProcess(i) ==
    /\ Following
    /\ dialogs[i].kind \in {"refine", "align"}
    /\ dialogs[i].open /\ dialogs[i].enabled
    /\ LET op == dialogs[i].kind \o "_file.do_process"
           kind == IF dialogs[i].kind = "refine" THEN "Refine" ELSE "Align"
       IN
       \E m_key \in model_keys, all_english \in BOOLEAN :
         /\ dialogs[i].kind = "refine" => ~all_english
         /\ \E c \in check_model(Cur, m_key, all_english, i) :
              IF ~c.status
              THEN Submitted(op, i, Passed(Failed(c.s, c.how), <<c.status>>),
                             <<c.key>>, NoArgs)
              ELSE \E start_fails \in BOOLEAN :
                     Submitted(op, i,
                               Passed(Given(file_start(c.s, kind, start_fails),
                                            c.model_name),
                                      <<c.status>>),
                               <<c.key>>, NoArgs)

\* do_process of translate_file: the ui changes and the flag come first
translate_do_process(s, tl_engine, li) ==
    LET s1 == [disable_interactions(start_lb(s)) EXCEPT !.file_processing = TRUE]
        why == libre_check(tl_engine = "LibreTranslate", li)
    IN  IF why # "ok" THEN Failed(s1, why)
        ELSE IF li.start_fails
        THEN [s |-> translate_stop(s1, FALSE, FALSE), outcome |-> "start_failed",
              status |-> FALSE]
        ELSE [s |-> start_worker(s1, [kind |-> "TranslateFile", phase |-> "running"]),
              outcome |-> "launched", status |-> TRUE]

TranslateDoProcess(i) ==
    /\ Following
    /\ dialogs[i].kind = "translate" /\ dialogs[i].open /\ dialogs[i].enabled
    /\ \E tl_engine \in Engines \ model_keys :
         \E li \in LaunchInputsOf([tl |-> TRUE], tl_engine) :
           Submitted("translate_file.do_process", i,
                     translate_do_process(Cur, tl_engine, li), <<>>,
                     [NoArgs EXCEPT !.tl = TRUE, !.tl_engine = tl_engine])

\* the Import button while its command is from_file_stop(True)
ImportStopButton ==
    /\ Following
    /\ btn_import_file.state = "normal"
    /\ btn_import_file.command = "from_file_stop"
    /\ \E answer \in BOOLEAN :
         Done("from_file_stop",
              Ret(from_file_stop(Cur, TRUE, answer),
                  IF answer THEN "stopped" ELSE "declined", <<>>))

(***************************************************************************)
(* The file workers (process_file, mod_result, translate_result): the      *)
(* progress window of a worker offers the stop function of its kind with   *)
(* a prompt; the worker ends silently once it reads bc.file_processing as  *)
(* false, and otherwise reports its end by clearing the flag and calling   *)
(* stop_lb("file").                                                        *)
(***************************************************************************)
ProgressCancel(w) ==
    /\ Following
    /\ w.kind \in FileKinds /\ w.phase = "running" /\ workers[w] > 0
    /\ \E answer \in BOOLEAN :
         Done(IF w.kind = "Import" THEN "from_file_stop" ELSE "file_stop",
              Ret(stop_of(Cur, w.kind, TRUE, answer),
                  IF answer THEN "stopped" ELSE "declined", <<>>))

FileWorkerDone(w) ==
    /\ Following
    /\ w.kind \in FileKinds /\ workers[w] > 0 /\ file_processing
    /\ Done("stop_lb",
            Ret(stop_lb([worker_exit(Cur, w) EXCEPT !.file_processing = FALSE], "file"),
                "done", <<>>))

FileWorkerCancelled(w) ==
    /\ Following
    /\ w.kind \in FileKinds /\ workers[w] > 0 /\ ~file_processing
    /\ Done("worker_exit", Ret(worker_exit(Cur, w), "cancelled", <<>>))

(***************************************************************************)
(* Leaving the window: quit_app and restart_app run cleanup; restart_app   *)
(* asks first when a flag is set or bc.dl_thread is alive.  The run ends   *)
(* with either of them (os._exit, or the main() of a new window).          *)
(***************************************************************************)
\* cleanup: bc.disable_rec(), bc.disable_file_tc(), bc.disable_file_tl(),
\* the windows destroyed (the widgets are left as they were configured), and
\* bc.cancel_dl raised when bc.dl_thread is alive
cleanup(s) ==
    [s EXCEPT !.recording = FALSE,
              !.cancel_dl = IF dl_alive(s) THEN TRUE ELSE @]

QuitApp ==
    /\ Following
    /\ Commit(cleanup(Cur),
              [NoHandler EXCEPT !.op = "quit_app", !.outcome = "exited"])

\* task_flag: bc.transcribing_file or bc.translating_file, which a file
\* worker sets while it is alive
RestartApp ==
    /\ Following
    /\ \E task_flag \in BOOLEAN, answer \in BOOLEAN :
          /\ task_flag => \E w \in WorkerStates :
                             w.kind \in FileKinds /\ workers[w] > 0
          /\ IF (task_flag \/ recording \/ file_processing \/ dl_alive(Cur))
                 /\ ~answer
             THEN Done("restart_app", Ret(Cur, "declined", <<>>))
             ELSE Commit(cleanup(Cur),
                         [NoHandler EXCEPT !.op = "restart_app",
                                           !.outcome = "restarted"])

\* no call of check_model is followed
NoCall ==
    [key |-> "Tiny", is_english |-> FALSE,
     inp |-> [verify |-> "ok", download |-> FALSE, dir_model |-> "auto",
              bypass_no_internet |-> FALSE, use_en_model |-> FALSE,
              start_fails |-> FALSE],
     called |-> FALSE, status |-> FALSE, model_name |-> "", how |-> ""]

\* the gate after MainWindow.__init__
InitGate ==
    /\ recording = FALSE
    /\ file_processing = FALSE
    /\ cancel_dl = FALSE
    /\ dl_thread = NoThread
    /\ orphans = [k \in ThreadKinds |-> 0]
    /\ workers = [w \in WorkerStates |-> 0]
    /\ btn_record = [text |-> "Record", command |-> "rec", state |-> "normal"]
    /\ btn_import_file = [command |-> "import_file", state |-> "normal"]
    /\ btn_tool = "normal"
    /\ cbtn_task = "normal"
    /\ load_bar = "stopped"
    /\ tc = TRUE
    /\ tl = TRUE
    /\ dialogs = <<>>
    /\ quota = MaxThreads
    /\ last = NoHandler

Init ==
    /\ InitGate
    /\ vocab = DefaultVocab
    /\ language = Imported
    /\ ui = DefaultUi
    /\ call = NoCall

Next ==
    \/ RecButton
    \/ RecTray
    \/ RecStopButton
    \/ RecWorkerLoaded
    \/ \E w \in WorkerStates : RecWorkerStopped(w)
    \/ \E w \in WorkerStates : RecWorkerError(w)
    \/ \E t \in Threads : DlAcquired(t)
    \/ \E t \in Threads : DlFailed(t)
    \/ \E t \in Threads : DlCancelButton(t)
    \/ \E t \in Threads : DlObservesCancel(t)
    \/ CbtnTask
    \/ ImportButton
    \/ \E kind \in DialogKinds : ToolMenu(kind)
    \/ \E kind \in DialogKinds : FileTray(kind)
    \/ \E i \in DOMAIN dialogs : CloseDialog(i)
    \/ \E i \in DOMAIN dialogs : ImportDoProcess(i)
    \/ \E i \in DOMAIN dialogs : ModDoProcess(i)
    \/ \E i \in DOMAIN dialogs : TranslateDoProcess(i)
    \/ ImportStopButton
    \/ \E w \in WorkerStates : ProgressCancel(w)
    \/ \E w \in WorkerStates : FileWorkerDone(w)
    \/ \E w \in WorkerStates : FileWorkerCancelled(w)
    \/ QuitApp
    \/ RestartApp

Spec == Init /\ [][Next]_vars

(***************************************************************************)
(* check_model as a function of what it meets: one call from the state     *)
(* after construction, for every verdict of verify_model_*, every answer   *)
(* and every value of the settings, also those a path does not read.       *)
(***************************************************************************)
CheckInit ==
    /\ InitGate
    /\ vocab = DefaultVocab
    /\ language = Imported
    /\ ui = DefaultUi
    /\ \E key \in model_keys, is_english \in BOOLEAN, inp \in AllCheckInputs :
          call = [NoCall EXCEPT !.key = key, !.is_english = is_english,
                                !.inp = inp]

CheckModelCall ==
    /\ ~call.called
    /\ LET c == check_model_on(Cur, call.key, call.is_english, 0, call.inp)
       IN  /\ InBounds(c.s)
           /\ Assign(c.s, last)
           /\ call' = [call EXCEPT !.called = TRUE, !.status = c.status,
                                   !.model_name = c.model_name, !.how = c.how]
    /\ UNCHANGED <<vocab, language, ui>>

CheckNext == CheckModelCall

CheckSpec == CheckInit /\ [][CheckNext]_vars

(***************************************************************************)
(* The language selection: the window is constructed for any vocabulary    *)
(* the APIs report and any saved selection, and the user changes the       *)
(* engine, the model, the tasks and the languages, and swaps the two       *)
(* languages.                                                              *)
(***************************************************************************)
LangInit ==
    /\ InitGate
    /\ vocab \in Vocabs
    /\ language = Imported
    /\ ui \in {Constructed(saved) : saved \in Saved}
    /\ call = NoCall

\* the engine combobox, which is disabled unless translate is selected
CbEngineChange(e) ==
    /\ Following
    /\ tl
    /\ ui' = cb_engine_change([ui EXCEPT !.cb_engine = e], tc, tl)
    /\ Assign(cbtn_task_change(Cur), last)
    /\ UNCHANGED <<vocab, language, call>>

\* the model combobox, which is disabled in translate-only mode with a whisper
\* engine and when no task is selected
CbModelChange(m) ==
    /\ Following
    /\ tc \/ (tl /\ ui.cb_engine \notin model_keys)
    /\ ui' = cbtn_task_change_cb([ui EXCEPT !.cb_model = m], tc, tl)
    /\ Assign(cbtn_task_change(Cur), last)
    /\ UNCHANGED <<vocab, language, call>>

\* the Swap button
CbSwapLang ==
    /\ Following
    /\ cbtn_task = "normal"
    /\ ui' = cb_swap_lang(ui)
    /\ UNCHANGED <<recording, file_processing, cancel_dl, dl_thread, orphans,
                   workers, btn_record, btn_import_file, btn_tool, cbtn_task,
                   load_bar, tc, tl, dialogs, quota, last, vocab, language,
                   call>>

\* the user picks an entry of a language combobox that is not disabled
CbSourceSelect(i) ==
    /\ Following
    /\ tc \/ tl
    /\ i \in 1..Len(ui.source_values)
    /\ ui' = [ui EXCEPT !.cb_source_lang = ui.source_values[i],
                        !.sj.source_lang_mw = ui.source_values[i]]
    /\ UNCHANGED <<recording, file_processing, cancel_dl, dl_thread, orphans,
                   workers, btn_record, btn_import_file, btn_tool, cbtn_task,
                   load_bar, tc, tl, dialogs, quota, last, vocab, language,
                   call>>

CbTargetSelect(i) ==
    /\ Following
    /\ tl
    /\ i \in 1..Len(ui.target_values)
    /\ ui' = [ui EXCEPT !.cb_target_lang = ui.target_values[i],
                        !.sj.target_lang_mw = ui.target_values[i]]
    /\ UNCHANGED <<recording, file_processing, cancel_dl, dl_thread, orphans,
                   workers, btn_record, btn_import_file, btn_tool, cbtn_task,
                   load_bar, tc, tl, dialogs, quota, last, vocab, language,
                   call>>

\* the longest list of languages
MaxValues == 9

LangNext ==
    \/ CbtnTask
    \/ \E e \in EngineKeys : CbEngineChange(e)
    \/ \E m \in model_keys : CbModelChange(m)
    \/ CbSwapLang
    \/ \E i \in 1..MaxValues : CbSourceSelect(i)
    \/ \E i \in 1..MaxValues : CbTargetSelect(i)

LangSpec == LangInit /\ [][LangNext]_vars

(***************************************************************************)
(* The functions of language.py: the module is imported for any vocabulary *)
(* the APIs report, and one function is called with any argument.  The     *)
(* call is kept in `last`: the function, its arguments (the engine id in   *)
(* a.tl_engine, the model in a.m_key, the language in a.source), the error *)
(* it raised, and the value it returned.  For a default-device handler     *)
(* the arguments are its inputs, the value is the text of its combobox and *)
(* the outcome is "error_notif" when it showed a warning.                  *)
(***************************************************************************)
\* the strings the lookups are called with
IdInputs == EngineKeys \cup UnknownIds

\* the refreshed list of devices, the answer of get_default_* and the setting
DeviceInputs ==
    [values : {<<"Device A">>, <<"Device A", "Device B">>},
     success : BOOLEAN, name : {"Device B", "Device C"},
     supress_device_warning : BOOLEAN]

CallInit ==
    /\ InitGate
    /\ vocab \in Vocabs
    /\ language = Imported
    /\ ui = DefaultUi
    /\ call = NoCall

(***************************************************************************)
(* The default devices: host_api_set_default (at construction, on_init),   *)
(* mic_set_default and speaker_set_default refresh their list, ask for the *)
(* default device and select it, or a fallback when there is none or when  *)
(* the list does not hold it.  d holds the refreshed list (values), what   *)
(* get_default_* returned (success, name) and the setting                  *)
(* sj.cache["supress_device_warning"]; the result is the text of the       *)
(* combobox and whether error_notif was called.  The condition of the      *)
(* warning is `not ["supress_device_warning"]`, the negation of a list     *)
(* that holds one string.                                                  *)
(***************************************************************************)
host_api_set_default(d) ==
    LET wanted == ~(Len(<<"supress_device_warning">>) > 0)
    IN  IF ~d.success
        THEN [cb |-> "[ERROR] Getting default hostAPI failed", notified |-> wanted]
        ELSE IF ~InList(d.name, d.values)
        THEN [cb |-> d.values[1], notified |-> wanted]
        ELSE [cb |-> d.name, notified |-> FALSE]

\* rate_similarity(default_device["name"], name) > 0.6 holds for the same name
mic_set_default(d) ==
    LET wanted == ~(Len(<<"supress_device_warning">>) > 0)
    IN  IF ~d.success
        THEN [cb |-> "[WARNING] No default mic found", notified |-> wanted]
        ELSE IF ~InList(d.name, d.values)
        THEN [cb |-> d.values[1], notified |-> wanted]
        ELSE [cb |-> d.name, notified |-> FALSE]

speaker_set_default(d) ==
    LET wanted == ~(Len(<<"supress_device_warning">>) > 0)
    IN  IF ~d.success
        THEN [cb |-> "[WARNING] No default speaker found", notified |-> wanted]
        ELSE IF ~InList(d.name, d.values)
        THEN [cb |-> d.values[1], notified |-> wanted]
        ELSE [cb |-> d.name, notified |-> FALSE]

\* op was called with the arguments a and ended as r
Called(op, a, r) ==
    /\ Following
    /\ Commit(Cur, [NoHandler EXCEPT !.op = op, !.outcome = r.raised,
                                     !.checked = r.value, !.a = a])

\* get_whisper_lang_name with a code or a name; get_whisper_lang_source,
\* TL_ENGINE_SOURCE_DICT[id] and TL_ENGINE_TARGET_DICT[id] with any string;
\* verify_language_in_key with a name and any string; the three handlers of
\* the default devices with any list, any answer and either setting
CallNext ==
    \/ \E search \in DOMAIN LANGUAGES \cup DOMAIN TO_LANGUAGE_CODE :
          Called("get_whisper_lang_name", [NoArgs EXCEPT !.source = search],
                 get_whisper_lang_name(search))
    \/ \E id \in IdInputs :
          Called("get_whisper_lang_source", [NoArgs EXCEPT !.m_key = id],
                 [raised |-> "", value |-> get_whisper_lang_source(id)])
    \/ \E id \in IdInputs :
          Called("TL_ENGINE_SOURCE_DICT", [NoArgs EXCEPT !.tl_engine = id],
                 IF id \in DOMAIN language.TL_ENGINE_SOURCE_DICT
                 THEN [raised |-> "", value |-> language.TL_ENGINE_SOURCE_DICT[id]]
                 ELSE [raised |-> "KeyError", value |-> <<>>])
    \/ \E id \in IdInputs :
          Called("TL_ENGINE_TARGET_DICT", [NoArgs EXCEPT !.tl_engine = id],
                 IF id \in DOMAIN language.TL_ENGINE_TARGET_DICT
                 THEN [raised |-> "", value |-> language.TL_ENGINE_TARGET_DICT[id]]
                 ELSE [raised |-> "KeyError", value |-> <<>>])
    \/ \E search \in {"auto detect", "english", "filipino", "javanese"},
          id \in IdInputs :
          LET v == verify_language_in_key(search, id)
          IN  Called("verify_language_in_key",
                     [NoArgs EXCEPT !.source = search, !.tl_engine = id],
                     IF v = "ValueError" THEN [raised |-> v, value |-> <<>>]
                     ELSE [raised |-> "", value |-> <<v>>])
    \/ \E d \in DeviceInputs :
          LET r == host_api_set_default(d)
          IN  Called("host_api_set_default", d,
                     [raised |-> IF r.notified THEN "error_notif" ELSE "",
                      value |-> <<r.cb>>])
    \/ \E d \in DeviceInputs :
          LET r == mic_set_default(d)
          IN  Called("mic_set_default", d,
                     [raised |-> IF r.notified THEN "error_notif" ELSE "",
                      value |-> <<r.cb>>])
    \/ \E d \in DeviceInputs :
          LET r == speaker_set_default(d)
          IN  Called("speaker_set_default", d,
                     [raised |-> IF r.notified THEN "error_notif" ELSE "",
                      value |-> <<r.cb>>])

CallSpec == CallInit /\ [][CallNext]_vars

(***************************************************************************)
(* Properties.                                                             *)
(***************************************************************************)
NumWorkersOf(b) == BagSize(b, WorkerStates)

\* the handlers that ask for a launch
RecOps == {"rec", "after_model_dl"}

DoProcessOps ==
    {"import_file.do_process", "refine_file.do_process",
     "align_file.do_process", "translate_file.do_process"}

\* the widgets of the main window that disable_interactions disables
MainEnabled ==
    cbtn_task = "normal" /\ btn_import_file.state = "normal" /\ btn_tool = "normal"

\* C1: at most one primary-operation worker (Record, Import, Refine, Align,
\* TranslateFile) is alive at any time.
C1_MutualExclusion == NumWorkers(Cur) <= 1

\* C2: a launch request that arrives while a primary operation is loading,
\* running or stopping is rejected without side effects: no worker starts, no
\* model is checked, no download starts and the flags stay as they are.
C2_BusyLaunchRejected ==
    [][(NumWorkers(Cur) > 0 /\ last'.op \in RecOps \cup DoProcessOps)
          => /\ workers' = workers
             /\ quota' = quota
             /\ last'.checked = <<>>
             /\ recording' = recording
             /\ file_processing' = file_processing]_vars

\* C3: rec and import_file's do_process called with translate on and the
\* source language equal to the target end as "same language" before any
\* check_model call, download or worker start, and leave the state as it was
\* (a rec that after_model_dl runs again leaves it as the enabler left it).
C3_SameLanguageRejected ==
    [][(/\ last'.op \in {"rec", "import_file.do_process", "after_model_dl"}
        /\ last'.a.tl
        /\ last'.a.source = last'.a.target)
          => /\ last'.outcome = "same_language"
             /\ last'.checked = <<>>
             /\ quota' = quota
             /\ workers' = workers
             /\ recording' = recording
             /\ file_processing' = file_processing
             /\ load_bar' = load_bar
             /\ last'.op # "after_model_dl" =>
                   UNCHANGED <<cancel_dl, dl_thread, orphans, btn_record,
                               btn_import_file, btn_tool, cbtn_task, tc, tl,
                               dialogs>>]_vars

\* a do_process of the import dialog was rejected for its language pair
C3_Witness ==
    /\ last.op = "import_file.do_process"
    /\ last.outcome = "same_language"
    /\ last.a.tl /\ last.a.source = last.a.target
    /\ Len(dialogs) = 1 /\ dialogs[1].open

\* C4: a launch with no operation running that stops because the
\* LibreTranslate host is not set leaves the flags, the load bar and the
\* interactions of the main window as they were.
C4_LibreUnsetFailsFast ==
    [][(/\ NumWorkers(Cur) = 0
        /\ last'.op \in {"rec"} \cup DoProcessOps
        /\ last'.outcome = "libre_link_unset")
          => /\ recording' = recording
             /\ file_processing' = file_processing
             /\ load_bar' = load_bar
             /\ cbtn_task' = cbtn_task
             /\ btn_import_file' = btn_import_file
             /\ btn_tool' = btn_tool]_vars

\* C5 as stated: a launch with both tasks and a whisper engine makes at most
\* one check_model call.
C5_SingleVerification ==
    (/\ last.op \in {"rec", "import_file.do_process", "after_model_dl"}
     /\ last.a.tc /\ last.a.tl /\ last.a.tl_engine \in model_keys)
       => Len(last.checked) <= 1

\* C5: a launch (rec or import_file) that gets past its model checks has
\* called check_model for the transcribe model and then for the engine when
\* both tasks are on and the engine is a whisper model, also when the two are
\* the same key; it has called it for the engine alone when only translate is
\* on and the engine is a whisper model, and for the transcribe model alone
\* otherwise.
C5_ChecksOfALaunch ==
    (/\ last.op \in {"rec", "import_file.do_process", "after_model_dl"}
     /\ last.outcome \in {"launched", "start_failed"})
       => last.checked =
            IF last.a.tl /\ last.a.tl_engine \in model_keys
            THEN IF last.a.tc THEN <<last.a.m_key, last.a.tl_engine>>
                 ELSE <<last.a.tl_engine>>
            ELSE <<last.a.m_key>>

\* a launch with the same key as model and as engine checked it twice
C5_Witness ==
    /\ last.op = "rec"
    /\ last.outcome = "launched"
    /\ last.a.tc /\ last.a.tl
    /\ last.a.tl_engine = last.a.m_key
    /\ last.checked = <<last.a.m_key, last.a.m_key>>

\* C6: a launch that ends because the user declines the download starts no
\* thread, changes no flag, and leaves the interactions that check_model's
\* disabler disabled enabled again (stated for the launches made while no
\* download that rec started is alive).
C6_DeclinedDownloadReopens ==
    [][(/\ last'.op \in RecOps \cup DoProcessOps
        /\ last'.outcome = "declined"
        /\ \A t \in AliveThreads(Cur) : t.owner # 0)
          => /\ quota' = quota
             /\ workers' = workers
             /\ recording' = recording
             /\ file_processing' = file_processing
             /\ IF last'.op \in RecOps THEN MainEnabled'
                ELSE \A i \in DOMAIN dialogs' : dialogs'[i].enabled]_vars

\* C7: while the download thread that bc.dl_thread names stays alive no
\* primary-operation worker is started (stated for the download that a file
\* dialog started).
C7_GateClosedDuringDownload ==
    [][(dl_thread.alive /\ dl_thread.owner # 0 /\ dl_thread'.alive)
          => NumWorkersOf(workers') <= NumWorkersOf(workers)]_vars

C9_FailedDownloadReopens ==
    [][(/\ last'.op \in {"dl_failed", "check_failed"}
        /\ dl_thread.alive /\ dl_thread.owner = 0
        /\ ~dl_thread'.alive)
          => MainEnabled' /\ workers' = workers]_vars

\* C10: once no worker and no download is alive and no dialog is open, the
\* gate is open: no flag is set and the interactions of the main window are
\* enabled.
C10_GateReopens ==
    (NumWorkers(Cur) = 0 /\ NumDownloads(Cur) = 0 /\ dialogs = <<>>)
       => ~recording /\ ~file_processing /\ MainEnabled

\* a stop of the recording is pending: rec_stop has run and no after_rec_stop
\* has followed, while a recording worker is alive
Stopping ==
    /\ btn_record.text = "Stopping..."
    /\ btn_record.state = "disabled"
    /\ workers[Loading] + workers[Recording] > 0

\* the gate is open: no flag is set and the main window takes requests
GateOpen == ~recording /\ ~file_processing /\ MainEnabled /\ btn_record.state = "normal"

\* every step but the recording worker's acknowledgement (after_rec_stop)
OtherThanAck ==
    \/ RecButton
    \/ RecTray
    \/ RecStopButton
    \/ RecWorkerLoaded
    \/ \E t \in Threads : DlAcquired(t) \/ DlFailed(t) \/ DlCancelButton(t)
                            \/ DlObservesCancel(t)
    \/ CbtnTask
    \/ ImportButton
    \/ \E kind \in DialogKinds : ToolMenu(kind) \/ FileTray(kind)
    \/ \E i \in DOMAIN dialogs : CloseDialog(i) \/ ImportDoProcess(i)
                                   \/ ModDoProcess(i) \/ TranslateDoProcess(i)
    \/ ImportStopButton
    \/ \E w \in WorkerStates : ProgressCancel(w) \/ FileWorkerDone(w)
                                 \/ FileWorkerCancelled(w)
    \/ QuitApp
    \/ RestartApp

\* C11: while a stop of the recording is pending, a step other than the
\* worker's acknowledgement can end the wait: the gate does not depend on
\* after_rec_stop being called by the worker.
C11_StopDoesNotWait ==
    (Following /\ Stopping) => ENABLED (OtherThanAck /\ ~Stopping')

\* file workers whose stop was requested and that have not ended
NumStopping ==
    workers[[kind |-> "Import", phase |-> "stopping"]]
    + workers[[kind |-> "Refine", phase |-> "stopping"]]
    + workers[[kind |-> "Align", phase |-> "stopping"]]
    + workers[[kind |-> "TranslateFile", phase |-> "stopping"]]

\* C12: from the stop of a file operation (from_file_stop, refinement_stop,
\* alignment_stop, translate_stop) until its worker has ended, the gate is not
\* open: the interactions of the main window stay disabled.
C12_StoppingGateClosed == NumStopping > 0 => ~MainEnabled

\* C13: the completion (stop_lb("file")) of a file worker whose stop was
\* requested, arriving while another worker is alive, is discarded: it leaves
\* the flags, the load bar and the buttons of the main window as they are.
C13_StaleCompletionDiscarded ==
    [][(/\ last'.op = "stop_lb"
        /\ last'.outcome = "done"
        /\ NumStopping' < NumStopping
        /\ NumWorkersOf(workers') > 0)
          => /\ file_processing' = file_processing
             /\ recording' = recording
             /\ load_bar' = load_bar
             /\ btn_import_file' = btn_import_file
             /\ btn_record' = btn_record
             /\ btn_tool' = btn_tool
             /\ cbtn_task' = cbtn_task]_vars

\* C14: at most one model download thread is alive at a time: bc.dl_thread
\* is never overwritten while the thread it names is alive (stated for the
\* downloads that the file dialogs start).
C14_SingleFlight ==
    (\A t \in AliveThreads(Cur) : t.owner # 0) => NumDownloads(Cur) <= 1

\* C15: a launch (rec, or the do_process of import_file, refine_file,
\* align_file, translate_file) whose Thread(...).start() raises starts no
\* thread, clears the flag it had set (bc.recording or bc.file_processing),
\* stops the load bar and enables the interactions of the main window again;
\* the record button and the import button are back to rec and import_file.
C15_StartFailureReopens ==
    [][(/\ last'.op \in RecOps \cup DoProcessOps
        /\ last'.outcome = "start_failed")
          => /\ NumWorkersOf(workers') = NumWorkersOf(workers)
             /\ quota' = quota
             /\ load_bar' = "stopped"
             /\ MainEnabled'
             /\ IF last'.op \in RecOps
                THEN ~recording' /\ btn_record'.command = "rec"
                ELSE ~file_processing'
             /\ last'.op = "import_file.do_process"
                   => btn_import_file'.command = "import_file"]_vars

\* the translate dialog's worker could not be started: the flag is cleared
\* and the main window is enabled, the dialog still open
C15_Witness ==
    /\ last.op = "translate_file.do_process"
    /\ last.outcome = "start_failed"
    /\ ~file_processing
    /\ MainEnabled
    /\ Len(dialogs) = 1 /\ dialogs[1].open

\* C16: check_model returns (True, model_name) exactly when the model is
\* verified, or when the check fails on "HTTPSConnectionPool" and
\* bypass_no_internet is set; a missing model, a connectivity failure without
\* the bypass and every other error return (False, ""), whatever the bypass
\* setting, the latter two with their error shown.
C16_BypassOnlyConnectivity ==
    call.called =>
      /\ call.status <=>
            \/ call.inp.verify = "ok"
            \/ call.inp.verify = "HTTPSConnectionPool" /\ call.inp.bypass_no_internet
      /\ call.model_name =
            IF call.status
            THEN append_dot_en(call.key, call.is_english, call.inp.use_en_model)
            ELSE ""
      /\ (call.inp.verify = "HTTPSConnectionPool" /\ ~call.inp.bypass_no_internet)
            => call.how = "no_internet"
      /\ call.inp.verify = "error" => call.how = "error"
      /\ call.inp.verify = "missing"
            => call.how \in {"download", "download_error", "declined"}

\* a connectivity failure was bypassed: the model is taken as downloaded
C16_Witness ==
    /\ call.called
    /\ call.inp.verify = "HTTPSConnectionPool"
    /\ call.inp.bypass_no_internet
    /\ call.status
    /\ call.model_name # ""

\* the file workers whose progress window is open, and the downloads whose
\* window offers cancel
RunningFileWorkers ==
    {w \in DOMAIN workers : w.kind \in FileKinds /\ w.phase = "running" /\ workers[w] > 0}

CancellableDownloads == {t \in AliveThreads(Cur) : t.callbacks}

\* the state after a cancel is issued and confirmed once, and twice
stop_twice(s, kind) == stop_of(stop_of(s, kind, TRUE, TRUE), kind, TRUE, TRUE)

model_dl_cancel_twice(s, owner) ==
    model_dl_cancel(model_dl_cancel(s, owner, TRUE), owner, TRUE)

Names(list) == LET l == list IN {l[i] : i \in 1..Len(l)}

\* C18: for the Whisper model keys the source list, from TL_ENGINE_SOURCE_DICT
\* and from get_whisper_lang_source alike, holds "Cantonese" exactly for the
\* V3 key; WHISPER_SOURCE_V3 and WHISPER_SOURCE differ in that one name.
C18_CantoneseOnlyV3 ==
    /\ \A k \in model_keys :
          /\ InList("Cantonese", TL_ENGINE_SOURCE_DICT[k]) <=> k = "Large V3"
          /\ InList("Cantonese", get_whisper_lang_source(k)) <=> k = "Large V3"
          /\ get_whisper_lang_source(k) = TL_ENGINE_SOURCE_DICT[k]
    /\ Names(WHISPER_SOURCE_V3) \ Names(WHISPER_SOURCE) = {"Cantonese"}
    /\ Names(WHISPER_SOURCE) \subseteq Names(WHISPER_SOURCE_V3)
    /\ Len(WHISPER_SOURCE_V3) = Len(WHISPER_SOURCE) + 1

\* the V3 model translates and transcribes: its source list is shown, with
\* Cantonese, after a change of the engine
C18_Witness ==
    /\ tc /\ tl
    /\ ui.cb_engine = "Large V3" /\ ui.cb_model = "Large V3"
    /\ ui.source_values = WHISPER_SOURCE_V3
    /\ InList("Cantonese", ui.source_values)
    /\ ui.cb_source_lang = "Cantonese"

\* C19: no target list of TL_ENGINE_TARGET_DICT holds the auto-detect name,
\* whatever the three APIs report as their languages.
C19_NoAutoDetectTarget ==
    \A e \in EngineKeys :
        /\ ~InList("Auto detect", TL_ENGINE_TARGET_DICT[e])
        /\ ~InList("auto detect", TL_ENGINE_TARGET_DICT[e])

\* the names an API reports, and the keys of its *_KEY_VAL dictionary
ReportedBy(e) ==
    CASE e = "Google Translate" -> vocab.google
      [] e = "DEEPL Translate" -> vocab.deepl
      [] e = "LibreTranslate" -> LIBRE_KEY_VAL
      [] e = "MyMemoryTranslator" -> vocab.mymemory

KeyValOf(e) ==
    CASE e = "Google Translate" -> GOOGLE_KEY_VAL
      [] e = "DEEPL Translate" -> DEEPL_KEY_VAL
      [] e = "LibreTranslate" -> LIBRE_KEY_VAL
      [] e = "MyMemoryTranslator" -> MYMEMORY_KEY_VAL

RemoteEngines == EngineKeys \ model_keys

\* the engines whose target list has "auto detect" removed
AutoRemoved == {"Google Translate", "LibreTranslate"}

\* the only target a Whisper engine offers is English, whatever the source,
\* and cb_engine_change selects it whatever was selected before
WhisperTargetsEnglish ==
    /\ \A k \in model_keys : TL_ENGINE_TARGET_DICT[k] = <<"English">>
    /\ ui.target_values = TL_ENGINE_TARGET_DICT[ui.cb_engine]
    /\ ui.cb_engine \in model_keys =>
          cb_engine_change(ui, tc, tl).cb_target_lang = "English"

SupportedBy(e) ==
    IF e \in model_keys
    THEN Names(WHISPER_LANG_LIST) \cup {"auto detect"}
    ELSE KeyValOf(e)

\* C21: every name of the source list of an engine, "Auto detect" included,
\* is, lowered, a language the engine supports; for the remote engines
\* verify_language_in_key returns True for it and does not raise.
C21_SourcesSupported ==
    \A e \in EngineKeys :
        LET source == TL_ENGINE_SOURCE_DICT[e]
        IN  \A i \in 1..Len(source) :
                /\ lower(source[i]) \in SupportedBy(e)
                /\ e \in RemoteEngines =>
                       verify_language_in_key(lower(source[i]), e) = "True"

\* Google Translate is selected and its source list holds "Auto detect" and
\* a name beside English that Whisper knows too
C21_Witness ==
    /\ ui.cb_engine = "Google Translate"
    /\ ui.source_values = GOOGLE_SOURCE
    /\ InList("Auto detect", ui.source_values)
    /\ InList("Javanese", ui.source_values)

Sorted(list) ==
    LET l == list IN \A i \in 1..Len(l) - 1 : Rank(l[i]) < Rank(l[i + 1])

SortedPinned(list) ==
    LET l == list
    IN  IF InList("Auto detect", l)
        THEN l[1] = "Auto detect" /\ Sorted(Tail(l))
        ELSE Sorted(l)

\* the engines whose source list has "Auto detect" put first
AutoPinned == model_keys \cup {"Google Translate", "LibreTranslate"}

\* the entry with index 0 of the source list is "Auto detect" exactly for
\* the engines of AutoPinned, which are those whose list holds it
FallbackIsAuto ==
    \A e \in EngineKeys :
        LET source == TL_ENGINE_SOURCE_DICT[e]
        IN  /\ InList("Auto detect", source) <=> e \in AutoPinned
            /\ Len(source) > 0
            /\ source[1] = "Auto detect" <=> e \in AutoPinned

C24_UnknownEngineFails ==
    /\ last.op \in {"verify_language_in_key", "TL_ENGINE_SOURCE_DICT",
                    "TL_ENGINE_TARGET_DICT"}
          /\ last.a.tl_engine \in UnknownIds
       => last.outcome # "" /\ last.checked = <<>>
    /\ last.op = "get_whisper_lang_source" /\ last.a.m_key \in UnknownIds
       => last.outcome # "" /\ last.checked = <<>>

\* C25: whatever the user does with the engine, the model, the tasks, the
\* language comboboxes and the Swap button, the selected target is an entry
\* of the target list of the selected engine.
C25_TargetInEngineList ==
    /\ ui.target_values = language.TL_ENGINE_TARGET_DICT[ui.cb_engine]
    /\ InList(ui.cb_target_lang, ui.target_values)

\* C26: whatever the user does, the selected source is an entry of the
\* source list that cbtn_task_change resolved for the tasks, the engine and
\* the model.
C26_SourceInResolvedList ==
    /\ (tc \/ tl) => ui.source_values = source_values(ui, tc, tl)
    /\ InList(ui.cb_source_lang, ui.source_values)

\* Cantonese is offered as a source
CantoneseOffered == InList("Cantonese", ui.source_values)

\* C27: with a Whisper engine selected, the source list that cbtn_task_change
\* left holds Cantonese, with both tasks, exactly when the model and the
\* engine are both V3; with transcribe only, exactly when the model is V3;
\* with translate only, exactly when the engine is V3.
C27_CantoneseByTask ==
    ui.cb_engine \in model_keys =>
        /\ (tc /\ tl) =>
              (CantoneseOffered <=> (has_V3(ui.cb_model) /\ has_V3(ui.cb_engine)))
        /\ (tc /\ ~tl) => (CantoneseOffered <=> has_V3(ui.cb_model))
        /\ (~tc /\ tl) => (CantoneseOffered <=> has_V3(ui.cb_engine))
        /\ (tc \/ tl) => ui.source_values \in {WHISPER_SOURCE, WHISPER_SOURCE_V3}

\* cbtn_task_change has run with both tasks, the V3 engine and another
\* model: the V2 list is shown and Cantonese is not offered
C27_Witness ==
    /\ last.op = "cbtn_task_change"
    /\ tc /\ tl
    /\ ui.cb_engine = "Large V3" /\ ui.cb_model = "Tiny"
    /\ ~CantoneseOffered
    /\ ui.source_values = WHISPER_SOURCE

\* C28: called with a name of the Whisper vocabulary, of whatever length,
\* get_whisper_lang_name raises nothing and returns the name as it is.
C28_NameReturnedUnchanged ==
    last.op = "get_whisper_lang_name" /\ InList(last.a.source, WHISPER_LANG_LIST)
        => last.outcome = "" /\ last.checked = <<last.a.source>>

\* C29: no run of rec and no run of import_file's do_process ends at the
\* assertion "model_tc is not None", whatever the tasks and the engine are.
C29_ModelAssigned ==
    last.op \in RecOps \cup {"import_file.do_process"}
        => last.outcome # "assertion_failed"

\* the names check_model returns for a key and a source language
VerifiedNames(key, source) ==
    {append_dot_en(key, source = "english", use_en_model) :
        use_en_model \in BOOLEAN}

\* translate alone, with a whisper model as the engine
EngineAlone(a) == ~a.tc /\ a.tl /\ a.tl_engine \in model_keys

\* C30: a rec or an import_file's do_process that starts its worker in
\* translate-only mode with a Whisper engine has checked the engine alone and
\* gives the worker the model that check returned; in every other mode it
\* has checked the transcribe model first and gives the worker the model
\* that check returned; every check_model call it made returned status True,
\* and a run in which a call returned False starts no worker.
C30_ModelHanded ==
    [][last'.op \in RecOps \cup {"import_file.do_process"} =>
          /\ Len(last'.passed) = Len(last'.checked)
          /\ last'.outcome = "launched" =>
                /\ \A i \in 1..Len(last'.passed) : last'.passed[i]
                /\ NumWorkers(Cur)' = NumWorkers(Cur) + 1
                /\ IF EngineAlone(last'.a)
                   THEN /\ last'.checked = <<last'.a.tl_engine>>
                        /\ last'.model_tc \in
                              VerifiedNames(last'.a.tl_engine, last'.a.source)
                   ELSE /\ Len(last'.checked) >= 1
                        /\ last'.checked[1] = last'.a.m_key
                        /\ last'.model_tc \in
                              VerifiedNames(last'.a.m_key, last'.a.source)
          /\ (\E i \in 1..Len(last'.passed) : ~last'.passed[i]) =>
                /\ workers' = workers
                /\ last'.model_tc = ""]_vars

\* rec started its worker in translate-only mode with the engine "Tiny": the
\* engine was checked, the transcribe model "Large V3" was not, and the
\* worker has the model of the engine
C30_Witness ==
    /\ last.op = "rec"
    /\ last.outcome = "launched"
    /\ EngineAlone(last.a)
    /\ last.a.tl_engine = "Tiny" /\ last.a.m_key = "Large V3"
    /\ last.checked = <<"Tiny">>
    /\ last.passed = <<TRUE>>
    /\ last.model_tc \in VerifiedNames("Tiny", last.a.source)
    /\ NumWorkers(Cur) = 1

\* C38: called with a code of LANGUAGES, get_whisper_lang_name returns the
\* name LANGUAGES gives for that code, never an alias.
C38_CodeToLanguagesName ==
    last.op = "get_whisper_lang_name" /\ last.a.source \in DOMAIN LANGUAGES
        => last.outcome = "" /\ last.checked = <<LANGUAGES[last.a.source]>>

ConfirmedOps == {"model_dl_cancel", "from_file_stop", "file_stop"}

\* C31: a cancel confirmation that the user declines (the stop function of a
\* file operation called with a prompt, or model_dl_cancel) changes nothing:
\* the flags, bc.cancel_dl, the progress windows and their workers, the
\* threads, the buttons and the interaction state are what they were.
C31_DeclinedCancelChangesNothing ==
    [][last'.op \in ConfirmedOps /\ last'.outcome = "declined"
          => UNCHANGED <<recording, file_processing, cancel_dl, dl_thread,
                         orphans, workers, btn_record, btn_import_file,
                         btn_tool, cbtn_task, load_bar, tc, tl, dialogs,
                         quota, ui>>]_vars

\* the cancel of a running import was declined in its progress window: the
\* worker is running, the flag is set and the interactions stay disabled
C31_Witness ==
    /\ last.op = "from_file_stop" /\ last.outcome = "declined"
    /\ file_processing
    /\ workers[[kind |-> "Import", phase |-> "running"]] = 1
    /\ btn_import_file.command = "from_file_stop"
    /\ cbtn_task = "disabled"

\* C33: whatever the model directory is, "auto" or a custom one, the
\* download that check_model starts is given its callbacks (after_func,
\* cancel_func and failed_func, with use_faster_whisper).
C33_CallbacksForEveryDirectory ==
    call.called /\ call.how = "download"
        => dl_thread.alive /\ dl_thread.callbacks

\* C34: a cancellation is not lost: while a file worker whose stop cleared
\* bc.file_processing has not ended, the flag is not set again, so the worker
\* cannot read it as true at its next checkpoint and go on.
C34_CancellationNotLost == NumStopping > 0 => ~file_processing

\* C36: the record button shows "Stop" only while bc.recording is true; a
\* stop_lb("mic") that arrives after rec_stop leaves the button as it is; and
\* from rec_stop on the button stays disabled with the text "Stopping..."
\* until after_rec_stop makes it the Record button again, bound to rec.
\* (stated for the steps that leave the window in place).
C36_RecordButtonFollowsRecording ==
    [][last'.op \notin {"quit_app", "restart_app"} =>
          /\ btn_record'.text = "Stop" => recording'
          /\ (~recording /\ last'.op = "stop_lb" /\ last'.outcome = "loaded")
                => btn_record' = btn_record
          /\ btn_record.text = "Stopping..."
                => \/ btn_record' = btn_record /\ btn_record.state = "disabled"
                   \/ btn_record'.text = "Record" /\ btn_record'.command = "rec"]_vars

\* C39: every step that changes the selected source or target language leaves
\* the new selection in the key of the main window (source_lang_mw,
\* target_lang_mw), and no step changes the key of another window.
C39_SavedKeysFollowSelection ==
    [][/\ ui'.cb_source_lang # ui.cb_source_lang
             => ui'.sj.source_lang_mw = ui'.cb_source_lang
       /\ ui'.cb_target_lang # ui.cb_target_lang
             => ui'.sj.target_lang_mw = ui'.cb_target_lang
       /\ ui'.sj.source_lang_f_import = ui.sj.source_lang_f_import]_vars

\* C35: after the cleanup of quit_app and of a restart_app that was not
\* declined, bc.recording and bc.file_processing are false and, when a
\* download is alive, bc.cancel_dl is set.
C35_CleanupClearsTheGate ==
    (\/ last.op = "quit_app"
     \/ last.op = "restart_app" /\ last.outcome = "restarted")
        => /\ ~recording
           /\ ~file_processing
           /\ NumDownloads(Cur) > 0 => cancel_dl

\* the handlers that select the default device
DeviceOps == {"host_api_set_default", "mic_set_default", "speaker_set_default"}

\* C32: when the default device cannot be obtained, or is not in the list,
\* and the warnings are not suppressed, each of the three handlers shows a
\* warning (error_notif) besides selecting the fallback.
C32_DefaultFailureWarns ==
    (/\ last.op \in DeviceOps
     /\ ~last.a.supress_device_warning
     /\ ~last.a.success \/ ~InList(last.a.name, last.a.values))
        => /\ last.outcome = "error_notif"
           /\ last.checked # <<last.a.name>>

====
